---- MODULE Spec2Model ----
(***************************************************************************)
(* Hypergeometric enrichment p-values (hyperg_test_pvalue.py).             *)
(*                                                                         *)
(* The four public operations, hypergeom_pvalue, enrichment_pvalue,        *)
(* pvalue_random and multi_sets_pvalues, are pure given their arguments    *)
(* and the state of the pseudo-random generator.  A behaviour is one call: *)
(* the action picks the arguments, runs the whole function and records     *)
(* what it returned or raised together with every hypergeom_pvalue         *)
(* invocation it made.                                                     *)
(*                                                                         *)
(* Probabilities are exact rationals [num, den]; floating-point rounding   *)
(* is not modelled.  A Python list is a sequence, a Python set is a set    *)
(* (or, where the code takes either, a sequence without repeats).          *)
(***************************************************************************)
EXTENDS Integers, Sequences, FiniteSets, TLC

VARIABLES call, outcome, trace, frame

vars == <<call, outcome, trace, frame>>

(***************************************************************************)
(* Bounds of the model.                                                    *)
(***************************************************************************)
MaxPopulation == 10
MaxCount == 4
MaxSeqLen == 2
MaxUniverseLen == 2
MaxSets == 2
MaxListSets == 1
MaxRepeats == 2
MaxBatchRepeats == 1
MaxSeed == 1

\* Element identifiers (gene names).
Genes == {"A", "B"}

(***************************************************************************)
(* Helpers: integers, sequences, exact arithmetic on probabilities.        *)
(***************************************************************************)
Min(a, b) == IF a <= b THEN a ELSE b

Max(a, b) == IF a >= b THEN a ELSE b

Range(s) == {s[i] : i \in 1..Len(s)}

SeqsUpTo(S, n) == UNION {[1..m -> S] : m \in 0..n}

\* A set as a collection with one entry per element (iteration order is
\* irrelevant to everything the program computes from it).
RECURSIVE SetToSeq(_)
SetToSeq(S) ==
    IF S = {} THEN <<>>
    ELSE LET x == CHOOSE y \in S : TRUE
         IN  <<x>> \o SetToSeq(S \ {x})

\* The binomial coefficient C(n, k).
RECURSIVE Choose(_, _)
Choose(n, k) ==
    IF k < 0 \/ k > n THEN 0
    ELSE IF k = 0 THEN 1
    ELSE (Choose(n - 1, k - 1) * n) \div k

Float(num, den) == [kind |-> "float", num |-> num, den |-> den]

NaN == [kind |-> "nan", num |-> 0, den |-> 1]

\* The same float: both nan, or the same rational.
FloatEq(a, b) ==
    /\ a.kind = b.kind
    /\ a.kind = "float" => a.num * b.den = b.num * a.den

FloatAdd(a, b) ==
    IF a.kind = "nan" \/ b.kind = "nan" THEN NaN
    ELSE Float(a.num * b.den + b.num * a.den, a.den * b.den)

\* a / n for an integer n # 0.
FloatDivInt(a, n) ==
    IF a.kind = "nan" THEN NaN
    ELSE IF n > 0 THEN Float(a.num, a.den * n)
    ELSE Float(0 - a.num, a.den * (0 - n))

Return(v) == [kind |-> "return", value |-> v]

Raise(e) == [kind |-> "raise", error |-> e]

(***************************************************************************)
(* scipy.stats.hypergeom.sf(k, M, n, N), as hypergeom_pvalue calls it.     *)
(* rv_discrete.sf: nan when the shape parameters fail _argcheck, 1 below   *)
(* the support, 0 at or above its upper end, and otherwise the sum of the  *)
(* probability mass strictly above k.                                      *)
(***************************************************************************)
hypergeom_argcheck(M, n, N) ==
    /\ M > 0 /\ n >= 0 /\ N >= 0
    /\ n <= M /\ N <= M

\* C(n, i) * C(M - n, N - i): the mass at i, over the denominator C(M, N).
PmfNum(i, M, n, N) == Choose(n, i) * Choose(M - n, N - i)

RECURSIVE SumPmf(_, _, _, _, _)
SumPmf(lo, hi, M, n, N) ==
    IF lo > hi THEN 0
    ELSE PmfNum(lo, M, n, N) + SumPmf(lo + 1, hi, M, n, N)

hypergeom_sf(k, M, n, N) ==
    IF ~hypergeom_argcheck(M, n, N) THEN NaN
    ELSE LET a == Max(N - (M - n), 0)
             b == Min(n, N)
             den == Choose(M, N)
         IN  IF k < a THEN Float(den, den)
             ELSE IF k >= b THEN Float(0, den)
             ELSE Float(SumPmf(k + 1, b, M, n, N), den)

(***************************************************************************)
(* intersect, hypergeom_pvalue (scalar form), enrichment_pvalue.           *)
(***************************************************************************)
\* Mutation of intersect: the union instead of the intersection.
intersect_union(set1, set2) == set1 \cup set2

\* set(set1).intersection(set2), on the element sets of its arguments.
intersect(set1, set2) == set1 \cap set2

hypergeom_pvalue(k, N, n, M) == hypergeom_sf(k, M, n, N)

\* One recorded invocation of hypergeom_pvalue: who made it, its arguments,
\* the random sample it was computed from (pvalue_random) and the
\* (reference tag, query tag) pair it belongs to (multi_sets_pvalues).
Invocation(caller, k, N, n, M, draw) ==
    [caller |-> caller, k |-> k, N |-> N, n |-> n, M |-> M,
     draw |-> draw, pair |-> <<>>]

\* Mutation of FilterToUniverse: a list comprehension, which keeps repeats.
FilterKeepRepeats(s, universe) == SelectSeq(s, LAMBDA x : x \in universe)

\* set(x for x in s if x in universe)
FilterToUniverse(s, universe) ==
    SetToSeq({s[i] : i \in {j \in 1..Len(s) : s[j] \in universe}})

\* ref_set, que_set, universe: sequences.  The result carries the locals
\* k, N, n, M next to the returned pval.
enrichment_pvalue(ref_set, que_set, universe, check_valid) ==
    LET universe_ == Range(universe)
        ref_set_ == IF check_valid THEN FilterToUniverse(ref_set, universe_)
                    ELSE ref_set
        que_set_ == IF check_valid THEN FilterToUniverse(que_set, universe_)
                    ELSE que_set
        k == Cardinality(intersect(Range(que_set_), Range(ref_set_)))
        M == Cardinality(universe_)
        n == Len(ref_set_)
        N == Len(que_set_)
    IN  [pval |-> hypergeom_pvalue(k, N, n, M),
         k |-> k, N |-> N, n |-> n, M |-> M]

(***************************************************************************)
(* random.sample(population, k), for a population given as a list or (as   *)
(* random.sample accepted until Python 3.11) as a set.  The generator's    *)
(* state is a number rng; a draw takes the k positions the state selects   *)
(* among all k-subsets of the population's positions (every subset is      *)
(* selected by some state) and advances the state.  Positions are          *)
(* distinct; elements are distinct only if the population has no repeats.  *)
(***************************************************************************)
PositionSubsets(len, k) == {S \in SUBSET (1..len) : Cardinality(S) = k}

RECURSIVE Weight(_)
Weight(S) ==
    IF S = {} THEN 0
    ELSE LET p == CHOOSE q \in S : TRUE
         IN  2 ^ (p - 1) + Weight(S \ {p})

\* The subset of rank rng (mod the number of subsets) in weight order.
SelectPositions(len, k, rng) ==
    LET all == PositionSubsets(len, k)
        r == rng % Cardinality(all)
    IN  CHOOSE S \in all : Cardinality({T \in all : Weight(T) < Weight(S)}) = r

\* The elements at the positions in S, in position order.
RECURSIVE AtPositions(_, _, _)
AtPositions(population, S, i) ==
    IF i > Len(population) THEN <<>>
    ELSE (IF i \in S THEN <<population[i]>> ELSE <<>>)
         \o AtPositions(population, S, i + 1)

\* ValueError: "Sample larger than population or is negative".
sample_raises(population, k) == k < 0 \/ k > Len(population)

random_sample(population, k, rng) ==
    AtPositions(population, SelectPositions(Len(population), k, rng), 1)

(***************************************************************************)
(* pvalue_random.  The loop of lines 62-66, then the division of line 67.  *)
(***************************************************************************)
RECURSIVE pvalue_random_loop(_, _, _, _, _, _)
pvalue_random_loop(i, st, n_random, universe, ref_set, n_repeats) ==
    IF i >= n_repeats THEN st
    ELSE IF sample_raises(universe, n_random)
         THEN [st EXCEPT !.error = "ValueError"]
    ELSE LET random_set == random_sample(universe, n_random, st.rng)
             k == Cardinality(intersect(Range(random_set), Range(ref_set)))
             M == Len(universe)
             n == Len(ref_set)
             p == hypergeom_pvalue(k, n_random, n, M)
         IN  pvalue_random_loop(i + 1,
                 [st EXCEPT !.pvalues = FloatAdd(@, p),
                            !.rng = @ + 1,
                            !.calls = Append(@,
                                Invocation("pvalue_random", k, n_random, n, M,
                                           random_set))],
                 n_random, universe, ref_set, n_repeats)

\* universe, ref_set: sequences.  rng: the generator's state at the call.
\* The result carries the hypergeom_pvalue invocations made and the
\* generator's state after the call.
pvalue_random(n_random, universe, ref_set, n_repeats, rng) ==
    LET st == pvalue_random_loop(0,
                  [pvalues |-> Float(0, 1), rng |-> rng, calls |-> <<>>,
                   error |-> "none"],
                  n_random, universe, ref_set, n_repeats)
    IN  [out |-> IF st.error # "none" THEN Raise(st.error)
                 ELSE IF n_repeats = 0 THEN Raise("ZeroDivisionError")
                 ELSE Return(FloatDivInt(st.pvalues, n_repeats)),
         calls |-> st.calls, rng |-> st.rng]

(***************************************************************************)
(* Python dicts keep insertion order: a dict is a sequence of <<key,       *)
(* value>> pairs with distinct keys; assigning to a key that is present    *)
(* replaces its value in place.                                            *)
(***************************************************************************)
DictKeys(d) == [i \in 1..Len(d) |-> d[i][1]]

DictHas(d, key) == \E i \in 1..Len(d) : d[i][1] = key

DictGet(d, key) == d[CHOOSE i \in 1..Len(d) : d[i][1] = key][2]

DictSet(d, key, v) ==
    IF DictHas(d, key)
    THEN [i \in 1..Len(d) |-> IF d[i][1] = key THEN <<key, v>> ELSE d[i]]
    ELSE Append(d, <<key, v>>)

(***************************************************************************)
(* multi_sets_pvalues.  A collection of sets is a list                     *)
(* [type |-> "list", tags |-> <<>>, sets |-> <<set, ...>>] or a dict       *)
(* [type |-> "dict", tags |-> <<tag, ...>>, sets |-> <<set, ...>>] with    *)
(* distinct tags, in insertion order.                                      *)
(***************************************************************************)
\* Lines 125-130: a Sequence gets the tags prefix_0, prefix_1, ...
tagged(sets, prefix) ==
    [i \in 1..Len(sets.sets) |->
        <<IF sets.type = "list" THEN prefix \o ToString(i - 1)
          ELSE sets.tags[i],
          sets.sets[i]>>]

\* Lines 131-132: {k: intersect(s, universe) for k, s in sets.items()}
filtered(sets, universe) ==
    [i \in 1..Len(sets) |-> <<sets[i][1], intersect(sets[i][2], Range(universe))>>]

\* f"{q_tag}(random)"
random_label(q_tag) == q_tag \o "(random)"

WithPair(calls, pair) == [i \in 1..Len(calls) |-> [calls[i] EXCEPT !.pair = pair]]

\* The row labels of pd.DataFrame(record): the keys of the inner dicts, in
\* order of first appearance.
RECURSIVE frame_index(_, _, _)
frame_index(record, c, index) ==
    IF c > Len(record) THEN index
    ELSE LET keys == DictKeys(record[c][2])
             new == SelectSeq(keys, LAMBDA key : key \notin Range(index))
         IN  frame_index(record, c + 1, index \o new)

\* pd.DataFrame(record) for a dict of dicts: one column per outer key, one
\* row per inner key.
DataFrame(record) ==
    [columns |-> DictKeys(record),
     index |-> frame_index(record, 1, <<>>),
     data |-> record]

\* The cell of column c and row r.
Cell(df, c, r) == DictGet(DictGet(df.data, c), r)

(***************************************************************************)
(* The calls.                                                              *)
(***************************************************************************)
Counts == (0 - 1)..MaxCount

Populations == (0 - 1)..MaxPopulation

Lists == SeqsUpTo(Genes, MaxSeqLen)

Universes == SeqsUpTo(Genes, MaxUniverseLen)

SampleSizes == (0 - 1)..(MaxUniverseLen + 1)

Repeats == (0 - 1)..MaxRepeats

Seeds == 0..MaxSeed

BatchRepeats == (0 - 1)..MaxBatchRepeats

\* Collections of up to max sets, as a list or as a dict whose keys are the
\* first tags of one of the given tag orders.
SetLists(max) == SeqsUpTo(SUBSET Genes, max)

ListOf(sets) == [type |-> "list", tags |-> <<>>, sets |-> sets]

DictOf(tags, sets) ==
    [type |-> "dict", tags |-> SubSeq(tags, 1, Len(sets)), sets |-> sets]

ListCollections(max) == {ListOf(sets) : sets \in SetLists(max)}

DictCollections(tagOrders, max) ==
    UNION {{DictOf(tags, sets) :
              sets \in {s \in SetLists(max) : Len(s) <= Len(tags)}} :
           tags \in tagOrders}

Collections(tagOrders, max) ==
    ListCollections(max) \cup DictCollections(tagOrders, max)

RefTagOrders == {<<"x", "y", "z">>}

QueryTagOrders == {<<"a", "a(random)", "b">>, <<"a(random)", "a", "b">>}

NoCall == [op |-> "none"]

Init ==
    /\ call = NoCall
    /\ outcome = [kind |-> "none"]
    /\ trace = <<>>
    /\ frame = [pc |-> "idle"]

\* hypergeom_pvalue(k, N, n, M) with integer arguments.
HypergeomCall ==
    /\ call.op = "none"
    /\ \E k \in Counts, N \in Counts, n \in Counts, M \in Populations :
        /\ call' = [op |-> "hypergeom_pvalue", k |-> k, N |-> N, n |-> n, M |-> M]
        /\ outcome' = Return(hypergeom_pvalue(k, N, n, M))
        /\ trace' = <<Invocation("caller", k, N, n, M, <<>>)>>
        /\ UNCHANGED frame

\* enrichment_pvalue(ref_set, que_set, universe, check_valid).
EnrichmentCall ==
    /\ call.op = "none"
    /\ \E ref_set \in Lists, que_set \in Lists, universe \in Universes,
          check_valid \in BOOLEAN :
        LET r == enrichment_pvalue(ref_set, que_set, universe, check_valid)
        IN  /\ call' = [op |-> "enrichment_pvalue", ref_set |-> ref_set,
                        que_set |-> que_set, universe |-> universe,
                        check_valid |-> check_valid]
            /\ outcome' = Return(r.pval)
            /\ trace' = <<Invocation("enrichment_pvalue", r.k, r.N, r.n, r.M,
                                      <<>>)>>
            /\ UNCHANGED frame

\* pvalue_random(n_random, universe, ref_set, n_repeats), with the generator
\* in state seed.
RandomCall ==
    /\ call.op = "none"
    /\ \E n_random \in SampleSizes, universe \in Universes, ref_set \in Lists,
          n_repeats \in Repeats, seed \in Seeds :
        LET r == pvalue_random(n_random, universe, ref_set, n_repeats, seed)
        IN  /\ call' = [op |-> "pvalue_random", n_random |-> n_random,
                        universe |-> universe, ref_set |-> ref_set,
                        n_repeats |-> n_repeats]
            /\ outcome' = r.out
            /\ trace' = r.calls
            /\ UNCHANGED frame

(***************************************************************************)
(* multi_sets_pvalues, one action per step of its loops.  frame holds the  *)
(* locals of the running call: the tagged and filtered collections, the    *)
(* loop positions i (reference) and j (query), the record built so far     *)
(* and the generator's state.                                              *)
(***************************************************************************)
\* Lines 125-134: the call with the generator in state seed, up to the
\* empty record, for collections drawn from refs and ques.
MultiCallOn(refs, ques) ==
    /\ call.op = "none"
    /\ \E ref_sets \in refs, que_sets \in ques,
          universe \in Universes, n_rep_random \in BatchRepeats, seed \in Seeds :
        /\ call' = [op |-> "multi_sets_pvalues", ref_sets |-> ref_sets,
                    que_sets |-> que_sets, universe |-> universe,
                    n_rep_random |-> n_rep_random]
        /\ frame' = [pc |-> "ref",
                     ref_sets |-> filtered(tagged(ref_sets, "ref_"), universe),
                     que_sets |-> filtered(tagged(que_sets, "que_"), universe),
                     i |-> 1, j |-> 1, record |-> <<>>, rng |-> seed]
        /\ outcome' = [kind |-> "running"]
        /\ trace' = <<>>

\* Lists and dicts of up to MaxSets sets.
MultiCall ==
    MultiCallOn(Collections(RefTagOrders, MaxSets),
                Collections(QueryTagOrders, MaxSets))

\* Lists of up to MaxListSets sets.
MultiListCall ==
    MultiCallOn(ListCollections(MaxListSets), ListCollections(MaxListSets))

\* Lines 135-136: the next reference set; record[ref_tag] = {}.  With no
\* query set the inner loop ends at once.
MultiRef ==
    /\ frame.pc = "ref"
    /\ frame.i <= Len(frame.ref_sets)
    /\ LET ref_tag == frame.ref_sets[frame.i][1]
           none == Len(frame.que_sets) = 0
       IN  frame' = [frame EXCEPT !.record = DictSet(@, ref_tag, <<>>),
                                  !.pc = IF none THEN "ref" ELSE "que",
                                  !.i = IF none THEN @ + 1 ELSE @,
                                  !.j = 1]
    /\ UNCHANGED <<call, outcome, trace>>

\* Lines 137-142: one (reference, query) pair: the direct p-value, then the
\* random background, which may raise and end the call.
MultiPair ==
    /\ frame.pc = "que"
    /\ LET ref_tag == frame.ref_sets[frame.i][1]
           ref_set == frame.ref_sets[frame.i][2]
           q_tag == frame.que_sets[frame.j][1]
           qset == frame.que_sets[frame.j][2]
           pair == <<ref_tag, q_tag>>
           e == enrichment_pvalue(SetToSeq(ref_set), SetToSeq(qset),
                                  call.universe, FALSE)
           r == pvalue_random(Cardinality(qset), call.universe,
                              SetToSeq(ref_set), call.n_rep_random, frame.rng)
           direct == DictSet(DictGet(frame.record, ref_tag), q_tag, e.pval)
           last == frame.j = Len(frame.que_sets)
       IN  /\ trace' = trace
                       \o WithPair(<<Invocation("enrichment_pvalue",
                                                e.k, e.N, e.n, e.M, <<>>)>>, pair)
                       \o WithPair(r.calls, pair)
           /\ IF r.out.kind = "raise"
              THEN /\ frame' = [frame EXCEPT
                                  !.record = DictSet(@, ref_tag, direct),
                                  !.rng = r.rng, !.pc = "done"]
                   /\ outcome' = r.out
              ELSE /\ frame' = [frame EXCEPT
                                  !.record = DictSet(@, ref_tag,
                                      DictSet(direct, random_label(q_tag),
                                              r.out.value)),
                                  !.rng = r.rng,
                                  !.pc = IF last THEN "ref" ELSE "que",
                                  !.i = IF last THEN @ + 1 ELSE @,
                                  !.j = IF last THEN 1 ELSE @ + 1]
                   /\ UNCHANGED outcome
    /\ UNCHANGED call

\* Lines 144-145: resdf = pd.DataFrame(record); return resdf.
MultiReturn ==
    /\ frame.pc = "ref"
    /\ frame.i > Len(frame.ref_sets)
    /\ frame' = [frame EXCEPT !.pc = "done"]
    /\ outcome' = Return(DataFrame(frame.record))
    /\ UNCHANGED <<call, trace>>

Next ==
    \/ HypergeomCall
    \/ EnrichmentCall
    \/ RandomCall
    \/ MultiCall
    \/ MultiRef
    \/ MultiPair
    \/ MultiReturn

Spec == Init /\ [][Next]_vars

\* The same calls, the batch call on positional collections only.
NextLists ==
    \/ HypergeomCall
    \/ EnrichmentCall
    \/ RandomCall
    \/ MultiListCall
    \/ MultiRef
    \/ MultiPair
    \/ MultiReturn

SpecLists == Init /\ [][NextLists]_vars

(***************************************************************************)
(* Properties.                                                             *)
(***************************************************************************)
Returned(op) == call.op = op /\ outcome.kind = "return"

One(p) == p.kind = "float" /\ p.num = p.den

\* An (k, N, n, M) that every reading of "valid" accepts.
ValidTuple(k, N, n, M) ==
    /\ 0 <= k /\ k <= Min(n, N)
    /\ n <= M /\ N <= M /\ M >= 1

\* P(X >= k): the mass at k and above, over C(M, N).
UpperTailInclusive(k, N, n, M) ==
    Float(SumPmf(k, Min(n, N), M, n, N), Choose(M, N))

\* C1: for a valid (k, N, n, M), hypergeom_pvalue returns the inclusive
\* upper tail P(X >= k) = sf(k - 1), and so does enrichment_pvalue for the
\* counts it derives.
C1_TailIsInclusive ==
    /\ (call.op = "hypergeom_pvalue"
        /\ ValidTuple(call.k, call.N, call.n, call.M))
       => /\ outcome.kind = "return"
          /\ FloatEq(outcome.value,
                     UpperTailInclusive(call.k, call.N, call.n, call.M))
    /\ (call.op = "enrichment_pvalue" /\ call.check_valid
        /\ Len(call.universe) >= 1)
       => /\ outcome.kind = "return"
          /\ FloatEq(outcome.value,
                     UpperTailInclusive(trace[1].k, trace[1].N,
                                        trace[1].n, trace[1].M))

\* C2: with k = 0 a valid call of hypergeom_pvalue returns exactly 1.0, and
\* enrichment_pvalue returns 1.0 when the filtered sets share no element.
C2_ZeroOverlapIsOne ==
    /\ (call.op = "hypergeom_pvalue" /\ call.k = 0
        /\ ValidTuple(call.k, call.N, call.n, call.M))
       => (outcome.kind = "return" /\ One(outcome.value))
    /\ (call.op = "enrichment_pvalue" /\ call.check_valid
        /\ Len(call.universe) >= 1 /\ trace[1].k = 0)
       => (outcome.kind = "return" /\ One(outcome.value))

\* C3: enrichment_pvalue(ref, que, U, check_valid=True) derives the same
\* (k, N, n, M) and returns the same value as
\* enrichment_pvalue(ref & U, que & U, U, check_valid=False).
C3_FilteringEquivalence ==
    (call.op = "enrichment_pvalue" /\ call.check_valid)
    => LET U == Range(call.universe)
           pre == enrichment_pvalue(
                      SetToSeq(Range(call.ref_set) \cap U),
                      SetToSeq(Range(call.que_set) \cap U),
                      call.universe, FALSE)
       IN  /\ outcome.kind = "return"
           /\ FloatEq(outcome.value, pre.pval)
           /\ trace[1].k = pre.k /\ trace[1].N = pre.N
           /\ trace[1].n = pre.n /\ trace[1].M = pre.M

HasRepeat(s) == Cardinality(Range(s)) < Len(s)

\* A filtered call whose reference list repeats an element, whose query
\* list holds an element outside the universe, and with an overlap.
C3_Witness ==
    /\ Returned("enrichment_pvalue") /\ call.check_valid
    /\ HasRepeat(call.ref_set)
    /\ ~(Range(call.que_set) \subseteq Range(call.universe))
    /\ trace[1].k >= 1

\* The tags of a collection as the caller sees them.
ExpectedTags(sets, prefix) ==
    IF sets.type = "list"
    THEN [i \in 1..Len(sets.sets) |-> prefix \o ToString(i - 1)]
    ELSE sets.tags

\* q_1, q_1(random), q_2, q_2(random), ...
ExpectedRows(tags) ==
    [i \in 1..(2 * Len(tags)) |->
        IF i % 2 = 1 THEN tags[(i + 1) \div 2]
        ELSE tags[i \div 2] \o "(random)"]

\* C4: the table multi_sets_pvalues returns has one column per reference
\* tag, in insertion order, and the 2Q rows q_1, q_1(random), q_2,
\* q_2(random), ... in input order.
C4_TableShape ==
    Returned("multi_sets_pvalues")
    => /\ outcome.value.columns = ExpectedTags(call.ref_sets, "ref_")
       /\ outcome.value.index
            = ExpectedRows(ExpectedTags(call.que_sets, "que_"))

\* Generator states a pvalue_random call inside one batch can start from.
BatchStates == 0..(MaxSeed + MaxSets * MaxSets * (MaxBatchRepeats + 1))

\* C5: in the returned table the cell (r, q) equals
\* enrichment_pvalue(original ref_r, original que_q, universe, True) and
\* the cell (r, "q(random)") is a pvalue_random estimate with
\* sampleSize = |que_q & universe| against ref_r & universe.
C5_CellsAreDirectAndRandom ==
    Returned("multi_sets_pvalues")
    => LET U == Range(call.universe)
           rtags == ExpectedTags(call.ref_sets, "ref_")
           qtags == ExpectedTags(call.que_sets, "que_")
       IN  \A i \in 1..Len(rtags), j \in 1..Len(qtags) :
             LET ref == call.ref_sets.sets[i]
                 que == call.que_sets.sets[j]
                 rnd == Cell(outcome.value, rtags[i], qtags[j] \o "(random)")
             IN  /\ FloatEq(Cell(outcome.value, rtags[i], qtags[j]),
                            enrichment_pvalue(SetToSeq(ref), SetToSeq(que),
                                              call.universe, TRUE).pval)
                 /\ \E rng \in BatchStates :
                      LET est == pvalue_random(Cardinality(que \cap U),
                                     call.universe, SetToSeq(ref \cap U),
                                     call.n_rep_random, rng).out
                      IN  est.kind = "return" /\ FloatEq(rnd, est.value)

InvalidTuple(k, N, n, M) ==
    \/ k < 0 \/ N < 0 \/ n < 0 \/ M < 0
    \/ k > Min(n, N)
    \/ N > M \/ n > M

\* C6: hypergeom_pvalue with inconsistent parameters ends in an error, also
\* when enrichment_pvalue reaches it with check_valid=False.
C6_InvalidParametersRaise ==
    /\ (call.op = "hypergeom_pvalue"
        /\ InvalidTuple(call.k, call.N, call.n, call.M))
       => outcome.kind = "raise"
    /\ (call.op = "enrichment_pvalue" /\ ~call.check_valid
        /\ InvalidTuple(trace[1].k, trace[1].N, trace[1].n, trace[1].M))
       => outcome.kind = "raise"

\* C7: pvalue_random with n_repeats <= 0 ends in an error and returns no
\* number.
C7_NonPositiveRepeatsRejected ==
    (call.op = "pvalue_random" /\ call.n_repeats <= 0)
    => outcome.kind = "raise"

RECURSIVE SumTerms(_, _)
SumTerms(terms, i) ==
    IF i > Len(terms) THEN Float(0, 1)
    ELSE FloatAdd(hypergeom_pvalue(terms[i].k, terms[i].N, terms[i].n,
                                   terms[i].M),
                  SumTerms(terms, i + 1))

\* C8: for n_repeats >= 1 and n_random within the universe, pvalue_random
\* makes exactly n_repeats draws of n_random pairwise-distinct elements of
\* the universe, each contributing
\* hypergeom_pvalue(|draw & ref_set|, n_random, |ref_set|, |universe|), and
\* returns the mean of the n_repeats terms.
C8_MeanOverDistinctDraws ==
    (call.op = "pvalue_random" /\ call.n_repeats >= 1
     /\ 0 <= call.n_random /\ call.n_random <= Len(call.universe))
    => /\ outcome.kind = "return"
       /\ Len(trace) = call.n_repeats
       /\ \A i \in 1..Len(trace) :
            /\ Len(trace[i].draw) = call.n_random
            /\ Cardinality(Range(trace[i].draw)) = call.n_random
            /\ Range(trace[i].draw) \subseteq Range(call.universe)
            /\ trace[i].k = Cardinality(Range(trace[i].draw)
                                        \cap Range(call.ref_set))
            /\ trace[i].N = call.n_random
            /\ trace[i].n = Len(call.ref_set)
            /\ trace[i].M = Len(call.universe)
       /\ FloatEq(outcome.value,
                  FloatDivInt(SumTerms(trace, 1), call.n_repeats))

\* The invocations made by the operations (not by an outside caller).
Derived(t) == t.caller \in {"enrichment_pvalue", "pvalue_random"}

CountsConsistent(t) ==
    /\ 0 <= t.k /\ 0 <= t.N /\ 0 <= t.n /\ 0 <= t.M
    /\ t.k <= Min(t.n, t.N)
    /\ Min(t.n, t.N) <= t.M

\* C9: at every call of hypergeom_pvalue made by enrichment_pvalue, by
\* pvalue_random, or by multi_sets_pvalues through them, the counts are
\* non-negative and 0 <= k <= min(n, N) <= M, for all inputs.
C9_CountsAlwaysConsistent ==
    \A i \in 1..Len(trace) : Derived(trace[i]) => CountsConsistent(trace[i])

\* s has no repeats and lies within the universe.
PlainSubset(s, universe) == ~HasRepeat(s) /\ Range(s) \subseteq Range(universe)

\* enrichment_pvalue was told not to filter, and neither collection is a
\* repeat-free subset of the universe.
Unfiltered ==
    /\ call.op = "enrichment_pvalue" /\ ~call.check_valid
    /\ ~PlainSubset(call.ref_set, call.universe)
    /\ ~PlainSubset(call.que_set, call.universe)

\* C9, amended: the counts are non-negative with k <= min(n, N) at every
\* derived call; min(n, N) <= M holds at every derived call except those of
\* enrichment_pvalue with check_valid=False on collections neither of which
\* is a repeat-free subset of the universe.
C9_CountsConsistentUnlessUnfiltered ==
    \A i \in 1..Len(trace) :
        Derived(trace[i])
        => /\ 0 <= trace[i].k /\ 0 <= trace[i].N
           /\ 0 <= trace[i].n /\ 0 <= trace[i].M
           /\ trace[i].k <= Min(trace[i].n, trace[i].N)
           /\ Unfiltered \/ Min(trace[i].n, trace[i].N) <= trace[i].M

\* A finished batch call in which both a direct test and a random draw saw
\* an overlap.
C9_Witness ==
    /\ Returned("multi_sets_pvalues")
    /\ \E i \in 1..Len(trace) :
         trace[i].caller = "enrichment_pvalue" /\ trace[i].k >= 1
    /\ \E i \in 1..Len(trace) :
         trace[i].caller = "pvalue_random" /\ trace[i].k >= 1

\* C10: within one multi_sets_pvalues call the direct test and the
\* background estimate of a pair use the same M (the number of distinct
\* universe identifiers), n and N, also for a universe list with repeats.
C10_SamePopulationPerPair ==
    call.op = "multi_sets_pvalues"
    => /\ \A i \in 1..Len(trace) :
            trace[i].M = Cardinality(Range(call.universe))
       /\ \A i \in 1..Len(trace), j \in 1..Len(trace) :
            trace[i].pair = trace[j].pair
            => /\ trace[i].M = trace[j].M
               /\ trace[i].n = trace[j].n
               /\ trace[i].N = trace[j].N

====
